---- MODULE Spec2Model ----
(***************************************************************************)
(* json-fuse-fs: a read-only FUSE filesystem whose tree is built from a    *)
(* JSON manifest.  The model covers tree construction (src/src/lib.rs),    *)
(* the inode map and the directory-listing cache (src/src/lib.rs,          *)
(* src/src/fs.rs), the file backends (src/src/raw.rs, src/src/local.rs)    *)
(* and the four FUSE handlers of JsonFS (src/src/fs.rs).                   *)
(*                                                                         *)
(* Strings that the code inspects character by character (file            *)
(* descriptors, file contents) are sequences of one-character strings;     *)
(* names, which the code only compares for equality, are TLA+ strings.     *)
(* Rust indices are 0-based, sequences here are 1-based: Rust index i is   *)
(* position i + 1.                                                         *)
(***************************************************************************)
EXTENDS Integers, Sequences, FiniteSets, TLC

----------------------------------------------------------------------------
(* Bounds of the model *)

\* largest number of JSON values (root included) in a manifest
MaxNodes == 4
\* largest read offset / readdir offset a request carries
MaxOffset == 4
\* largest requested read size
MaxSize == 4
\* largest number of entries the readdir reply buffer accepts in one call
MaxCap == 4
\* largest number of readdir calls of one paging client
MaxCalls == 4
\* the host clock readings SystemTime::now() can return are 0..MaxTime
MaxTime == 1
\* largest number of components after the root of a path given to walk
MaxPath == 2

(* Program constants *)

\* const TTL: Duration = Duration::from_secs(1)
TTL == 1
\* perm: 0o755 of generate_dir_attr
DirPerm == 493
\* perm: 0o644 of RawFSFileType::get_attributes
RawPerm == 420

----------------------------------------------------------------------------
(* Inputs *)

\* manifest keys
Keys == {"a", "b"}

\* names a lookup request can carry
Names == Keys \cup {".", "..", "zz"}

\* what stands between two '/' of a path given to walk
Segments == Names

\* the paths given to walk: "/" followed by the segments joined with '/'
Paths == UNION {[1..n -> Segments] : n \in 0..MaxPath}

\* "raw:a:b"
DescRaw == <<"r", "a", "w", ":", "a", ":", "b">>
\* "file:p"
DescLocal == <<"f", "i", "l", "e", ":", "p">>
\* "raw" (no separator)
DescNoSep == <<"r", "a", "w">>
\* "z:x" (unknown type)
DescUnknown == <<"z", ":", "x">>

Descriptors == {DescRaw, DescLocal, DescNoSep, DescUnknown}

\* "raw:" (empty data)
DescRawEmpty == <<"r", "a", "w", ":">>
\* "file:" (empty path)
DescLocalEmpty == <<"f", "i", "l", "e", ":">>

\* the descriptors of the manifests that are only constructed, not served
BuildDescriptors == Descriptors \cup {DescRawEmpty, DescLocalEmpty}

\* content of the host file behind a "file:" descriptor, when it is accessible
HostData == <<"h", "i">>

\* serde_json::Value: Object(Map), String(String), or any other variant
\* (Null, Bool, Number, Array)
JObject(m) == [t |-> "Object", s |-> <<>>, m |-> m]
JString(s) == [t |-> "String", s |-> s, m |-> <<>>]
JOther == [t |-> "Other", s |-> <<>>, m |-> <<>>]

RECURSIVE JSize(_)
RECURSIVE JSizeSum(_, _)
\* number of values in a JSON value
JSize(v) == 1 + JSizeSum(v.m, Len(v.m))
\* number of values in the first n members of an object
JSizeSum(m, n) == IF n = 0 THEN 0 ELSE JSizeSum(m, n - 1) + JSize(m[n][2])

RECURSIVE JValuesOf(_, _)
RECURSIVE JMembersOf(_, _, _)
\* every JSON value of at most n values whose strings are out of ds
JValuesOf(n, ds) ==
    IF n < 1 THEN {}
    ELSE {JString(d) : d \in ds} \cup {JOther}
         \cup {JObject(m) : m \in JMembersOf(n - 1, Keys, ds)}
\* every member list of at most n values in all, with distinct keys out of ks
JMembersOf(n, ks, ds) ==
    {<<>>} \cup
    UNION {UNION {{<<<<k, v>>>> \o rest :
                      rest \in JMembersOf(n - JSize(v), ks \ {k}, ds)}
                  : v \in JValuesOf(n, ds)}
           : k \in ks}

\* every JSON value of at most n values
JValues(n) == JValuesOf(n, Descriptors)
\* every member list of at most n values in all, with distinct keys out of ks
JMembers(n, ks) == JMembersOf(n, ks, Descriptors)

Manifests == JValues(MaxNodes)

\* the manifests that are only constructed
BuildManifests == JValuesOf(MaxNodes, BuildDescriptors)

\* inode numbers a request can carry (MaxNodes + 1 is never allocated)
Inos == 1..(MaxNodes + 1)

----------------------------------------------------------------------------
(* Tree construction, src/src/lib.rs *)

\* FSFileType::Raw(RawFSFileType { data }), FSFileType::Local(LocalFSFileType { file_path })
FSFileType(type, pointer) == [type |-> type, pointer |-> pointer]
NoFileType == FSFileType("None", <<>>)

\* FSEntry::File { name, file_type } and FSEntry::Dir { name, entries }
FSEntryFile(name, file_type) ==
    [kind |-> "File", name |-> name, file_type |-> file_type, entries |-> <<>>]
FSEntryDir(name, entries) ==
    [kind |-> "Dir", name |-> name, file_type |-> NoFileType, entries |-> entries]

\* Result<_, DescriptorError>
Ok(v) == [ok |-> TRUE, v |-> v]
DescriptorError == [ok |-> FALSE, v |-> "DescriptorError"]

\* str::find(':'): position of the first ':' of s, 0 for None
Find(s) ==
    IF \E i \in 1..Len(s) : s[i] = ":"
    THEN CHOOSE i \in 1..Len(s) : s[i] = ":" /\ \A j \in 1..(i - 1) : s[j] # ":"
    ELSE 0

\* FSFileType::parse_file_type
parse_file_type(type_descriptor, pointer) ==
    CASE type_descriptor = <<"r", "a", "w">> -> Ok(FSFileType("Raw", pointer))
      [] type_descriptor = <<"f", "i", "l", "e">> -> Ok(FSFileType("Local", pointer))
      [] OTHER -> DescriptorError

\* create_file that keeps the ':' in the pointer
create_file_keep_separator(filename, file_descriptor) ==
    LET at == Find(file_descriptor) IN
    IF at = 0 THEN DescriptorError
    ELSE LET descriptor_type == SubSeq(file_descriptor, 1, at - 1)
             descriptor_pointer == SubSeq(file_descriptor, at, Len(file_descriptor))
             fs_entry_type == parse_file_type(descriptor_type, descriptor_pointer)
         IN  IF fs_entry_type.ok
             THEN Ok(FSEntryFile(filename, fs_entry_type.v))
             ELSE DescriptorError
\* FSEntry::create_file
create_file(filename, file_descriptor) ==
    LET at == Find(file_descriptor) IN
    IF at = 0 THEN DescriptorError
    ELSE LET descriptor_type == SubSeq(file_descriptor, 1, at - 1)
             descriptor_pointer == SubSeq(file_descriptor, at, Len(file_descriptor))
             fs_entry_type == parse_file_type(descriptor_type, Tail(descriptor_pointer))
         IN  IF fs_entry_type.ok
             THEN Ok(FSEntryFile(filename, fs_entry_type.v))
             ELSE DescriptorError

RECURSIVE _new(_, _)
RECURSIVE create_directory(_, _)
\* FSEntry::_new
_new(name, descriptor) ==
    CASE descriptor.t = "Object" -> create_directory(name, descriptor.m)
      [] descriptor.t = "String" -> create_file(name, descriptor.s)
      [] OTHER -> DescriptorError

\* create_directory that drops the children that failed
create_directory_lenient(dir_name, dir_descriptor) ==
    LET results == [i \in 1..Len(dir_descriptor) |->
                        _new(dir_descriptor[i][1], dir_descriptor[i][2])]
        IsOk(r) == r.ok
        kept == SelectSeq(results, IsOk)
    IN  Ok(FSEntryDir(dir_name, [i \in 1..Len(kept) |-> kept[i].v]))
\* FSEntry::create_directory: collect() of the children's results is the
\* first error, or all the children in iteration order
create_directory(dir_name, dir_descriptor) ==
    LET results == [i \in 1..Len(dir_descriptor) |->
                        _new(dir_descriptor[i][1], dir_descriptor[i][2])]
    IN  IF \E i \in 1..Len(results) : ~results[i].ok
        THEN DescriptorError
        ELSE Ok(FSEntryDir(dir_name, [i \in 1..Len(results) |-> results[i].v]))

\* FSEntry::new
FSEntry_new(descriptor) == _new("", descriptor)

----------------------------------------------------------------------------
(* FSNode: the tree node the adapter works on (inode, name, parent, entry). *)
(* FSNode::new is called by main and by the tests; it numbers the nodes of  *)
(* the constructed tree and links each child to its directory.              *)

RECURSIVE EntrySize(_)
RECURSIVE EntrySizeSum(_, _)
\* number of nodes of an entry's subtree
EntrySize(e) == 1 + EntrySizeSum(e.entries, Len(e.entries))
\* number of nodes in the subtrees of the first n entries
EntrySizeSum(entries, n) ==
    IF n = 0 THEN 0 ELSE EntrySizeSum(entries, n - 1) + EntrySize(entries[n])

RECURSIVE FSNodeOf(_, _, _)
\* FSNodeOf that hands its own parent down to its children
FSNodeOf_parent_of_parent(e, ino, parent) ==
    [inode |-> ino, name |-> e.name, parent |-> parent,
     kind |-> e.kind, file_type |-> e.file_type,
     entries |-> [i \in 1..Len(e.entries) |->
                    FSNodeOf(e.entries[i], ino + 1 + EntrySizeSum(e.entries, i - 1), parent)]]
\* the FSNode of entry e when e is numbered ino and its directory is numbered
\* parent (0: Weak::new(), no parent); a directory is numbered before its
\* children, the children depth-first in order
FSNodeOf(e, ino, parent) ==
    [inode |-> ino, name |-> e.name, parent |-> parent,
     kind |-> e.kind, file_type |-> e.file_type,
     entries |-> [i \in 1..Len(e.entries) |->
                    FSNodeOf(e.entries[i], ino + 1 + EntrySizeSum(e.entries, i - 1), ino)]]

\* FSNode::new: the numbered tree, or the construction error
FSNode_new(descriptor) ==
    LET r == FSEntry_new(descriptor) IN
    IF r.ok THEN Ok(FSNodeOf(r.v, 1, 0)) ELSE DescriptorError

\* the value of fs_tree_root before the tree exists
NoNode ==
    [inode |-> 0, name |-> "", parent |-> 0, kind |-> "None",
     file_type |-> NoFileType, entries |-> <<>>]

----------------------------------------------------------------------------
(* Inode map and directory listing, src/src/lib.rs and src/src/fs.rs *)

RECURSIVE flatten(_)
RECURSIVE flat_map(_, _)
\* flatten with a directory after its children
flatten_children_first(self) ==
    IF self.kind = "Dir"
    THEN flat_map(self.entries, Len(self.entries)) \o <<self>>
    ELSE <<self>>
\* FSEntry::flatten: once(self).chain(entries.iter().flat_map(|e| e.flatten()))
flatten(self) ==
    IF self.kind = "Dir"
    THEN <<self>> \o flat_map(self.entries, Len(self.entries))
    ELSE <<self>>
\* the concatenation of flatten over the first n entries
flat_map(entries, n) ==
    IF n = 0 THEN <<>> ELSE flat_map(entries, n - 1) \o flatten(entries[n])

\* FSEntry::generate_inode_map: map.insert((i as u64) + 1, flattened_tree[i])
\* for i in 0..len
generate_inode_map(self) ==
    LET flattened_tree == flatten(self) IN
    [k \in {i + 1 : i \in 0..(Len(flattened_tree) - 1)} |-> flattened_tree[(k - 1) + 1]]

\* one element of a directory listing: (inode, FileType, name)
DirEntry(ino, file_type, name) == <<ino, file_type, name>>

\* the listing with a ".." entry that names the directory itself
node_dir_listing_self_parent(node) ==
    <<DirEntry(node.inode, "Directory", ".")>>
    \o (IF node.parent # 0
        THEN <<DirEntry(node.inode, "Directory", "..")>>
        ELSE <<>>)
    \o [i \in 1..Len(node.entries) |->
          IF node.entries[i].kind = "Dir"
          THEN DirEntry(node.entries[i].inode, "Directory", node.entries[i].name)
          ELSE DirEntry(node.entries[i].inode, "RegularFile", node.entries[i].name)]
\* the listing generate_dir_listing computes for one directory node
node_dir_listing(node) ==
    <<DirEntry(node.inode, "Directory", ".")>>
    \o (IF node.parent # 0
        THEN <<DirEntry(node.parent, "Directory", "..")>>
        ELSE <<>>)
    \o [i \in 1..Len(node.entries) |->
          IF node.entries[i].kind = "Dir"
          THEN DirEntry(node.entries[i].inode, "Directory", node.entries[i].name)
          ELSE DirEntry(node.entries[i].inode, "RegularFile", node.entries[i].name)]

RECURSIVE generate_dir_listing_upto(_, _)
\* the result map of generate_dir_listing after the first n nodes
generate_dir_listing_upto(nodes, n) ==
    IF n = 0 THEN <<>>
    ELSE LET result == generate_dir_listing_upto(nodes, n - 1)
             node == nodes[n]
         IN  IF node.kind = "Dir"
             THEN [d \in (DOMAIN result) \cup {node.inode} |->
                     IF d = node.inode THEN node_dir_listing(node) ELSE result[d]]
             ELSE result

\* JsonFS::generate_dir_listing
generate_dir_listing(nodes) == generate_dir_listing_upto(nodes, Len(nodes))

----------------------------------------------------------------------------
(* State *)

VARIABLES
    manifest,      \* the JSON value main loads
    phase,         \* "start", "failed" (no mount), "mounted", "panicked"
    fs_tree_root,  \* JsonFS.fs_tree_root
    inode,         \* JsonFS.inode
    dir_listing,   \* JsonFS.dir_listing
    req,           \* the last request dispatched to the adapter
    reply,         \* what the adapter replied to it
    prev,          \* the reply to the lookup that the last request follows up
    pager          \* a client paging one directory with readdir

vars == <<manifest, phase, fs_tree_root, inode, dir_listing, req, reply, prev, pager>>

NoAttr == [ino |-> 0, size |-> 0, blocks |-> 0, time |-> 0, kind |-> "None",
           perm |-> 0, nlink |-> 0]

Reply(kind, errno, ttl, attr, data, entries) ==
    [kind |-> kind, errno |-> errno, ttl |-> ttl, attr |-> attr, data |-> data,
     entries |-> entries, node |-> NoNode]
NoReply == Reply("none", "", 0, NoAttr, <<>>, <<>>)
\* reply.entry(&TTL, &attr, 0)
ReplyEntry(ttl, attr) == Reply("entry", "", ttl, attr, <<>>, <<>>)
\* reply.attr(&TTL, &attr)
ReplyAttr(ttl, attr) == Reply("attr", "", ttl, attr, <<>>, <<>>)
\* reply.data(data)
ReplyData(data) == Reply("data", "", 0, NoAttr, data, <<>>)
\* reply.ok() of a ReplyDirectory holding entries
ReplyDirectory(entries) == Reply("dir", "", 0, NoAttr, <<>>, entries)
\* reply.error(errno)
ReplyError(errno) == Reply("error", errno, 0, NoAttr, <<>>, <<>>)
\* the handler panicked: nothing is replied and the process unwinds
Panic == Reply("panic", "", 0, NoAttr, <<>>, <<>>)

Request(op, ino, name, offset, size, cap, now, accessible) ==
    [op |-> op, ino |-> ino, name |-> name, offset |-> offset, size |-> size,
     cap |-> cap, now |-> now, accessible |-> accessible, path |-> <<>>]
\* a call of walk(path) on the root
WalkRequest(path) ==
    [op |-> "walk", ino |-> 0, name |-> "", offset |-> 0, size |-> 0,
     cap |-> 0, now |-> 0, accessible |-> TRUE, path |-> path]
\* Option<&FSEntry>
Some(node) == [some |-> TRUE, node |-> node]
None == [some |-> FALSE, node |-> NoNode]
\* what walk returned
Walked(o) ==
    [kind |-> IF o.some THEN "walk_some" ELSE "walk_none", errno |-> "", ttl |-> 0,
     attr |-> NoAttr, data |-> <<>>, entries |-> <<>>, node |-> o.node]
NoRequest == Request("none", 0, "", 0, 0, 0, 0, TRUE)

PagerIdle == [state |-> "idle", dir |-> 0, got |-> <<>>, cursor |-> 0, calls |-> 0]

Init ==
    /\ manifest \in Manifests
    /\ phase = "start"
    /\ fs_tree_root = NoNode
    /\ inode = <<>>
    /\ dir_listing = <<>>
    /\ req = NoRequest
    /\ reply = NoReply
    /\ prev = NoReply
    /\ pager = PagerIdle

\* JsonFS::new
JsonFS_new(root, inode_map) ==
    [fs_tree_root |-> root, inode |-> inode_map,
     dir_listing |-> generate_dir_listing(flatten(root))]

\* main: FSNode::new(j).unwrap(), JsonFS::new, fuse::mount
Mount ==
    /\ phase = "start"
    /\ LET r == FSNode_new(manifest) IN
       IF r.ok
       THEN LET fs == JsonFS_new(r.v, generate_inode_map(r.v)) IN
            /\ phase' = "mounted"
            /\ fs_tree_root' = fs.fs_tree_root
            /\ inode' = fs.inode
            /\ dir_listing' = fs.dir_listing
       ELSE /\ phase' = "failed"
            /\ UNCHANGED <<fs_tree_root, inode, dir_listing>>
    /\ UNCHANGED <<manifest, req, reply, prev, pager>>

----------------------------------------------------------------------------
(* FSEntry::walk, src/src/lib.rs *)

\* Path::new(path).components() of the absolute path with these segments:
\* RootDir, then Normal(s) for every segment s, except that empty segments
\* and "." are dropped and ".." is ParentDir
Components(path) ==
    LET Kept(seg) == seg # "" /\ seg # "."
        kept == SelectSeq(path, Kept)
    IN  <<[kind |-> "RootDir", name |-> ""]>>
        \o [i \in 1..Len(kept) |->
              IF kept[i] = ".." THEN [kind |-> "ParentDir", name |-> ""]
              ELSE [kind |-> "Normal", name |-> kept[i]]]

\* FSEntry::_walk
_walk(self, component) ==
    IF component.kind = "Normal" /\ self.kind = "Dir"
    THEN IF \E i \in 1..Len(self.entries) : self.entries[i].name = component.name
         THEN Some(self.entries[CHOOSE i \in 1..Len(self.entries) :
                        /\ self.entries[i].name = component.name
                        /\ \A j \in 1..(i - 1) : self.entries[j].name # component.name])
         ELSE None
    ELSE None

RECURSIVE walk_fold(_, _, _)
\* fold(Some(self), |o, c| o.and_then(|e| e._walk(c))) over the first n
\* components of cs
walk_fold(self, cs, n) ==
    IF n = 0 THEN Some(self)
    ELSE LET o == walk_fold(self, cs, n - 1) IN
         IF o.some THEN _walk(o.node, cs[n]) ELSE None

\* walk that does not skip the root component
walk_no_skip(self, path) ==
    LET cs == Components(path) IN walk_fold(self, cs, Len(cs))
\* FSEntry::walk: components().skip(1).fold(..)
walk(self, path) ==
    LET cs == Tail(Components(path)) IN walk_fold(self, cs, Len(cs))

----------------------------------------------------------------------------
(* File backends, src/src/raw.rs and src/src/local.rs *)

\* RawFSFileType::get_attributes
RawGetAttributes(data, ino, now) ==
    [ino |-> ino, size |-> Len(data), blocks |-> 1, time |-> now,
     kind |-> "RegularFile", perm |-> RawPerm, nlink |-> 1]

\* LocalFSFileType::get_attributes: stat(path).unwrap() panics when the path
\* is not accessible, otherwise the host file's stat is propagated
LocalGetAttributes(file_path, ino, accessible) ==
    IF accessible
    THEN Ok([ino |-> ino, size |-> Len(HostData), blocks |-> 1, time |-> 0,
             kind |-> "RegularFile", perm |-> RawPerm, nlink |-> 1])
    ELSE [ok |-> FALSE, v |-> "panic"]

\* outcome of a backend read: the bytes copied into the caller's buffer,
\* an io::Error, or a panic
ReadOk(data) == [status |-> "ok", data |-> data]
ReadErr == [status |-> "err", data |-> <<>>]
ReadPanic == [status |-> "panic", data |-> <<>>]

\* data[from..to] of Rust: the bytes at 0-based positions from .. to - 1
Slice(data, from, to) == SubSeq(data, from + 1, to)

\* RawFSFileType::read(offset, buffer), buffer of buflen bytes.
\* data.len() - off with off > data.len() overflows (a panic in a checked
\* build; wrapped, it selects the else branch, whose slice then panics).
\* copy_from_slice panics unless both slices have the same length, and a
\* slice panics unless from <= to <= len.
RawRead(data, offset, buflen) ==
    LET off == offset
        len == Len(data)
    IN  IF off > len THEN ReadPanic
        ELSE IF buflen > len - off
        THEN ReadOk(Slice(data, off, len))
        ELSE IF off <= buflen /\ buflen <= len /\ buflen - off = buflen
        THEN ReadOk(Slice(data, off, buflen))
        ELSE ReadPanic

\* LocalFSFileType::read(offset, buffer): File::open(path)?, seek, read
LocalRead(file_path, offset, buflen, accessible) ==
    IF ~accessible THEN ReadErr
    ELSE LET len == Len(HostData)
             n == IF offset >= len THEN 0
                  ELSE IF buflen < len - offset THEN buflen ELSE len - offset
         IN  ReadOk(Slice(HostData, offset, offset + n))

\* file_type.ops().read(..): dispatch on the FSFileType variant
FileTypeRead(file_type, offset, buflen, accessible) ==
    IF file_type.type = "Raw"
    THEN RawRead(file_type.pointer, offset, buflen)
    ELSE LocalRead(file_type.pointer, offset, buflen, accessible)

----------------------------------------------------------------------------
(* The FUSE handlers of JsonFS, src/src/fs.rs *)

\* JsonFS::generate_dir_attr
generate_dir_attr(ino, now) ==
    [ino |-> ino, size |-> 0, blocks |-> 0, time |-> now, kind |-> "Directory",
     perm |-> DirPerm, nlink |-> 2]

\* JsonFS::get_node_attr
get_node_attr(entry, now, accessible) ==
    IF entry.kind = "File"
    THEN IF entry.file_type.type = "Raw"
         THEN Ok(RawGetAttributes(entry.file_type.pointer, entry.inode, now))
         ELSE LocalGetAttributes(entry.file_type.pointer, entry.inode, accessible)
    ELSE Ok(generate_dir_attr(entry.inode, now))

\* Iterator::find on a directory's entries: position of the first entry
\* named name, 0 for None
FindEntry(entries, name) ==
    IF \E i \in 1..Len(entries) : entries[i].name = name
    THEN CHOOSE i \in 1..Len(entries) :
            /\ entries[i].name = name
            /\ \A j \in 1..(i - 1) : entries[j].name # name
    ELSE 0

\* JsonFS::lookup
lookup(parent, lookup_name, now, accessible) ==
    IF parent \notin DOMAIN inode THEN Panic
    ELSE LET node == inode[parent]
             at == IF node.kind = "Dir" THEN FindEntry(node.entries, lookup_name) ELSE 0
         IN  IF at # 0
             THEN LET attr == get_node_attr(node.entries[at], now, accessible) IN
                  IF attr.ok THEN ReplyEntry(TTL, attr.v) ELSE Panic
             ELSE ReplyError("ENOENT")

\* getattr that synthesizes directory attributes for every node
getattr_always_dir(ino, now, accessible) ==
    IF ino \notin DOMAIN inode THEN Panic
    ELSE ReplyAttr(TTL, generate_dir_attr(inode[ino].inode, now))
\* JsonFS::getattr
getattr(ino, now, accessible) ==
    IF ino \notin DOMAIN inode THEN Panic
    ELSE LET attr == get_node_attr(inode[ino], now, accessible) IN
         IF attr.ok THEN ReplyAttr(TTL, attr.v) ELSE Panic

\* JsonFS::read.  The handler replies the data when the backend read yields
\* some, and ENOENT otherwise; the backends of raw.rs and local.rs fill a
\* buffer of the requested size and return io::Result, so "some data" is
\* their Ok with the bytes they copied, and "none" their Err.
read(ino, offset, size, accessible) ==
    IF ino \notin DOMAIN inode THEN Panic
    ELSE LET node == inode[ino] IN
         IF node.kind = "File"
         THEN LET r == FileTypeRead(node.file_type, offset, size, accessible) IN
              CASE r.status = "ok" -> ReplyData(r.data)
                [] r.status = "panic" -> Panic
                [] OTHER -> ReplyError("ENOENT")
         ELSE ReplyError("ENOENT")

\* ReplyDirectory::add on a buffer with room for cap entries: TRUE, and
\* nothing added, when the buffer is full
ReplyAdd(buf, cap, e) ==
    IF Len(buf) >= cap
    THEN [full |-> TRUE, buf |-> buf]
    ELSE [full |-> FALSE, buf |-> Append(buf, e)]

\* the cursor readdir reports for the entry that enumerate() numbers i
\* after skip(offset)
readdir_cursor(offset, i) == i + 1

RECURSIVE readdir_find(_, _, _, _, _)
\* dir_entries.iter().skip(offset).enumerate().find(|..| reply.add(..)),
\* from enumerate index i on: the reply buffer at the end
readdir_find(dir_entries, offset, i, cap, buf) ==
    IF offset + i >= Len(dir_entries) THEN buf
    ELSE LET e == dir_entries[offset + i + 1]
             r == ReplyAdd(buf, cap,
                           [ino |-> e[1], offset |-> readdir_cursor(offset, i),
                            kind |-> e[2], name |-> e[3]])
         IN  IF r.full THEN r.buf
             ELSE readdir_find(dir_entries, offset, i + 1, cap, r.buf)

\* JsonFS::readdir
readdir(ino, offset, cap) ==
    IF ino \in DOMAIN dir_listing
    THEN LET dir_entries == dir_listing[ino] IN
         IF offset < Len(dir_entries)
         THEN ReplyDirectory(readdir_find(dir_entries, offset, 0, cap, <<>>))
         ELSE ReplyDirectory(<<>>)
    ELSE ReplyError("ENOENT")

----------------------------------------------------------------------------
(* Requests *)

Times == 0..MaxTime

\* the adapter answers r with out; a panic unwinds out of fuse::mount and
\* ends the process
Serve(r, out) ==
    /\ req' = r
    /\ reply' = out
    /\ phase' = IF out.kind = "panic" THEN "panicked" ELSE phase
    /\ UNCHANGED <<manifest, fs_tree_root, inode, dir_listing>>

Lookup ==
    /\ phase = "mounted"
    /\ req = NoRequest
    /\ \E parent \in Inos, name \in Names, now \in Times, accessible \in BOOLEAN :
          Serve(Request("lookup", parent, name, 0, 0, 0, now, accessible),
                lookup(parent, name, now, accessible))
    /\ prev' = NoReply
    /\ pager' = PagerIdle

Getattr ==
    /\ phase = "mounted"
    /\ req = NoRequest
    /\ \E ino \in Inos, now \in Times, accessible \in BOOLEAN :
          Serve(Request("getattr", ino, "", 0, 0, 0, now, accessible),
                getattr(ino, now, accessible))
    /\ prev' = NoReply
    /\ pager' = PagerIdle

Read ==
    /\ phase = "mounted"
    /\ req = NoRequest
    /\ \E ino \in Inos, offset \in 0..MaxOffset, size \in 0..MaxSize,
          accessible \in BOOLEAN :
          Serve(Request("read", ino, "", offset, size, 0, 0, accessible),
                read(ino, offset, size, accessible))
    /\ prev' = NoReply
    /\ pager' = PagerIdle

\* walk(path) is called on the root of the constructed tree
Walk ==
    /\ phase = "mounted"
    /\ req = NoRequest
    /\ \E path \in Paths :
          /\ req' = WalkRequest(path)
          /\ reply' = Walked(walk(fs_tree_root, path))
    /\ prev' = NoReply
    /\ pager' = PagerIdle
    /\ UNCHANGED <<manifest, phase, fs_tree_root, inode, dir_listing>>

\* the client that got an entry from lookup asks for the attributes of the
\* identity it was given
GetattrAfterLookup ==
    /\ phase = "mounted"
    /\ req.op = "lookup"
    /\ reply.kind = "entry"
    /\ \E now \in Times, accessible \in BOOLEAN :
          Serve(Request("getattr", reply.attr.ino, "", 0, 0, 0, now, accessible),
                getattr(reply.attr.ino, now, accessible))
    /\ prev' = reply
    /\ pager' = PagerIdle

Readdir ==
    /\ phase = "mounted"
    /\ req = NoRequest
    /\ \E ino \in Inos, offset \in 0..MaxOffset, cap \in 1..MaxCap :
          Serve(Request("readdir", ino, "", offset, 0, cap, 0, TRUE),
                readdir(ino, offset, cap))
    /\ prev' = NoReply
    /\ pager' = PagerIdle

\* the entries of a readdir reply without their cursors
Delivered(entries) ==
    [i \in 1..Len(entries) |-> DirEntry(entries[i].ino, entries[i].kind, entries[i].name)]

\* a client starts paging directory d: readdir(d, 0)
PageFirst ==
    /\ phase = "mounted"
    /\ req = NoRequest
    /\ \E d \in DOMAIN dir_listing, cap \in 1..MaxCap :
          LET out == readdir(d, 0, cap) IN
          /\ Serve(Request("readdir", d, "", 0, 0, cap, 0, TRUE), out)
          /\ prev' = NoReply
          /\ pager' = [state |-> IF out.entries = <<>> THEN "done" ELSE "paging",
                       dir |-> d,
                       got |-> Delivered(out.entries),
                       cursor |-> IF out.entries = <<>> THEN 0
                                  ELSE out.entries[Len(out.entries)].offset,
                       calls |-> 1]

\* the client goes on: readdir(d, cursor of the last entry delivered), until
\* a call delivers nothing
PageNext ==
    /\ phase = "mounted"
    /\ pager.state = "paging"
    /\ pager.calls < MaxCalls
    /\ \E cap \in 1..MaxCap :
          LET out == readdir(pager.dir, pager.cursor, cap) IN
          /\ Serve(Request("readdir", pager.dir, "", pager.cursor, 0, cap, 0, TRUE), out)
          /\ prev' = NoReply
          /\ pager' = [state |-> IF out.entries = <<>> THEN "done" ELSE "paging",
                       dir |-> pager.dir,
                       got |-> pager.got \o Delivered(out.entries),
                       cursor |-> IF out.entries = <<>> THEN pager.cursor
                                  ELSE out.entries[Len(out.entries)].offset,
                       calls |-> pager.calls + 1]

\* the kernel bridge has taken the reply: the request is over, and the next
\* one can be dispatched (requests are dispatched one at a time)
Complete ==
    /\ phase = "mounted"
    /\ req # NoRequest
    /\ req' = NoRequest
    /\ reply' = NoReply
    /\ prev' = NoReply
    /\ pager' = PagerIdle
    /\ UNCHANGED <<manifest, phase, fs_tree_root, inode, dir_listing>>

Next ==
    \/ Mount
    \/ Complete
    \/ Walk
    \/ Lookup
    \/ Getattr
    \/ GetattrAfterLookup
    \/ Read
    \/ Readdir
    \/ PageFirst
    \/ PageNext

Spec == Init /\ [][Next]_vars

\* construction alone, over the manifests with every kind of descriptor
InitBuild ==
    /\ manifest \in BuildManifests
    /\ phase = "start"
    /\ fs_tree_root = NoNode
    /\ inode = <<>>
    /\ dir_listing = <<>>
    /\ req = NoRequest
    /\ reply = NoReply
    /\ prev = NoReply
    /\ pager = PagerIdle

NextBuild == Mount

SpecBuild == InitBuild /\ [][NextBuild]_vars

----------------------------------------------------------------------------
(* Properties *)

Mounted == phase \in {"mounted", "panicked"}

\* the identity under which the index holds node
IdentityOf(node) == CHOOSE k \in DOMAIN inode : inode[k] = node

\* the identities of the directories whose child list contains the node of d
ParentsOf(d) ==
    {k \in DOMAIN inode :
        \E j \in 1..Len(inode[k].entries) : inode[k].entries[j] = inode[d]}

\* C1: a client that pages a directory from offset 0, passing the cursor of
\* the last entry delivered as the next offset, until a call delivers
\* nothing, receives exactly the directory's listing: what it has received at
\* any time is a prefix of the listing (in order, none skipped, none
\* repeated), and all of it once the paging is over.
C1_PagingYieldsListing ==
    pager.state # "idle" =>
        LET listing == dir_listing[pager.dir] IN
        /\ Len(pager.got) <= Len(listing)
        /\ pager.got = SubSeq(listing, 1, Len(pager.got))
        /\ pager.state = "done" => pager.got = listing

\* C2: the cursor reported with every entry a readdir delivers is the
\* entry's index in the directory's listing plus 1, whatever the start
\* offset, and a readdir from that cursor begins right after the entry.
C2_CursorIsListingIndexPlusOne ==
    (req.op = "readdir" /\ reply.kind = "dir") =>
        LET listing == dir_listing[req.ino] IN
        \A j \in 1..Len(reply.entries) :
           LET e == reply.entries[j] IN
           \A index \in 0..(Len(listing) - 1) :
              listing[index + 1] = DirEntry(e.ino, e.kind, e.name) =>
                 /\ e.offset = index + 1
                 /\ LET next == readdir(req.ino, e.offset, 1).entries IN
                    IF index + 1 < Len(listing)
                    THEN Delivered(next) = <<listing[index + 2]>>
                    ELSE next = <<>>

\* the request is a read of a file with an embedded ("raw:") backend
IsRawRead ==
    /\ req.op = "read"
    /\ req.ino \in DOMAIN inode
    /\ inode[req.ino].kind = "File"
    /\ inode[req.ino].file_type.type = "Raw"

\* C5: a read of an embedded file of length L at (offset, len) never fails:
\* it replies no bytes when offset >= L, and otherwise the min(len, L - offset)
\* bytes data[offset .. offset + min(len, L - offset)].
C5_RawReadSlices ==
    IsRawRead =>
        LET data == inode[req.ino].file_type.pointer
            L == Len(data)
            n == IF req.size < L - req.offset THEN req.size ELSE L - req.offset
        IN  /\ phase = "mounted"
            /\ reply.kind = "data"
            /\ req.offset >= L => reply.data = <<>>
            /\ req.offset < L =>
                  /\ Len(reply.data) = n
                  /\ \A i \in 1..n : reply.data[i] = data[req.offset + i]

\* C6: lookup(p, name) replies ENOENT when p is not in the index, when p is
\* a file and when no child of p is named name; otherwise it replies the
\* identity and attributes of the child of p with that name.
C6_LookupResolvesChild ==
    req.op = "lookup" =>
        LET known == req.ino \in DOMAIN inode
            matches == IF known /\ inode[req.ino].kind = "Dir"
                       THEN {j \in 1..Len(inode[req.ino].entries) :
                                inode[req.ino].entries[j].name = req.name}
                       ELSE {}
        IN  IF matches = {}
            THEN reply = ReplyError("ENOENT") /\ phase = "mounted"
            ELSE /\ phase = "mounted"
                 /\ reply.kind = "entry"
                 /\ \E j \in matches :
                       LET child == inode[req.ino].entries[j] IN
                       /\ reply.attr.ino = IdentityOf(child)
                       /\ reply.attr.kind =
                             (IF child.kind = "Dir" THEN "Directory" ELSE "RegularFile")
                       /\ child.kind = "File" /\ child.file_type.type = "Raw" =>
                             reply.attr.size = Len(child.file_type.pointer)

\* C7: getattr of an identity that is not in the index replies ENOENT as an
\* ordinary response, and the adapter keeps serving.
C7_GetattrUnknownIsNotFound ==
    (req.op = "getattr" /\ req.ino \notin DOMAIN inode) =>
        /\ reply = ReplyError("ENOENT")
        /\ phase = "mounted"

\* C8: read replies ENOENT when the identity is not in the index and when it
\* is a directory, for every offset and size; it replies bytes only for a
\* file.
C8_ReadNotFound ==
    req.op = "read" =>
        /\ (req.ino \notin DOMAIN inode \/ inode[req.ino].kind # "File") =>
              reply = ReplyError("ENOENT") /\ phase = "mounted"
        /\ reply.kind = "data" =>
              req.ino \in DOMAIN inode /\ inode[req.ino].kind = "File"

\* the request is a read of a delegated ("file:") file whose host path cannot
\* be opened: the backend read fails
IsFailedBackendRead ==
    /\ req.op = "read"
    /\ req.ino \in DOMAIN inode
    /\ inode[req.ino].kind = "File"
    /\ inode[req.ino].file_type.type = "Local"
    /\ ~req.accessible

\* C9: when the backend read of an existing file fails, the read replies an
\* I/O error (EIO): not ENOENT, and not data.
C9_BackendFailureIsIoError ==
    IsFailedBackendRead =>
        /\ reply.kind = "error"
        /\ reply.errno = "EIO"

\* C3: after construction from a manifest of N values the index has exactly
\* the keys 1..N, index[1] is the root, and the index is the pre-order of the
\* tree: the j-th child of the directory at k is at k + 1 + (the sizes of the
\* subtrees of its first j - 1 children).
C3_IndexIsPreorder ==
    Mounted =>
        /\ DOMAIN inode = 1..JSize(manifest)
        /\ inode[1] = fs_tree_root
        /\ \A k \in DOMAIN inode :
              \A j \in 1..Len(inode[k].entries) :
                 LET at == k + 1 + EntrySizeSum(inode[k].entries, j - 1) IN
                 /\ at \in DOMAIN inode
                 /\ inode[at] = inode[k].entries[j]

\* a mounted tree whose pre-order differs from its level order:
\* root { a: { x: file }, b: .. }
C3_Witness ==
    /\ phase = "mounted"
    /\ Len(inode) = 4
    /\ Len(inode[1].entries) = 2
    /\ inode[2].kind = "Dir"
    /\ inode[3].kind = "File"
    /\ inode[4] = inode[1].entries[2]

\* C4: the listing of every directory d is the self entry, then ".." with the
\* identity of d's actual parent if and only if d has a parent, then one
\* entry per child in child-list order with the child's identity, kind and
\* name; directories and only directories have a listing, and the root's
\* listing has no ".." entry.
C4_ListingShape ==
    Mounted =>
        /\ DOMAIN dir_listing = {d \in DOMAIN inode : inode[d].kind = "Dir"}
        /\ \A d \in DOMAIN dir_listing :
              LET node == inode[d]
                  parents == ParentsOf(d)
                  up == IF parents = {} THEN <<>>
                        ELSE <<DirEntry(CHOOSE k \in parents : TRUE, "Directory", "..")>>
                  children ==
                      [j \in 1..Len(node.entries) |->
                          DirEntry(IdentityOf(node.entries[j]),
                                   IF node.entries[j].kind = "Dir"
                                   THEN "Directory" ELSE "RegularFile",
                                   node.entries[j].name)]
              IN  /\ Cardinality(parents) <= 1
                  /\ dir_listing[d] = <<DirEntry(d, "Directory", ".")>> \o up \o children
        /\ 1 \in DOMAIN dir_listing =>
              \A i \in 1..Len(dir_listing[1]) : dir_listing[1][i][3] # ".."

\* the listing of a directory whose parent is not the root: ".", ".." and
\* its one child
C4_Witness ==
    /\ phase = "mounted"
    /\ 3 \in DOMAIN dir_listing
    /\ inode[3].parent = 2
    /\ Len(inode[3].entries) = 1
    /\ Len(dir_listing[3]) = 3

RECURSIVE Malformed(_)
\* a value that is neither an object nor a string, a string without ':', a
\* string whose prefix before the first ':' is neither "raw" nor "file", or an
\* object with such a value at any depth
Malformed(v) ==
    CASE v.t = "Object" -> \E i \in 1..Len(v.m) : Malformed(v.m[i][2])
      [] v.t = "String" ->
            \/ \A i \in 1..Len(v.s) : v.s[i] # ":"
            \/ \E i \in 1..Len(v.s) :
                  /\ v.s[i] = ":"
                  /\ \A j \in 1..(i - 1) : v.s[j] # ":"
                  /\ SubSeq(v.s, 1, i - 1) \notin {<<"r", "a", "w">>, <<"f", "i", "l", "e">>}
      [] OTHER -> TRUE

\* C10: construction from a manifest with a malformed value at any depth
\* fails for the whole manifest: nothing is mounted, and no tree, index or
\* listing exists.
C10_MalformedManifestFails ==
    (phase # "start" /\ Malformed(manifest)) =>
        /\ phase = "failed"
        /\ fs_tree_root = NoNode
        /\ inode = <<>>
        /\ dir_listing = <<>>

\* construction failed on a manifest whose first entry is well formed and
\* whose second entry is a directory holding the malformed value
C10_Witness ==
    /\ phase = "failed"
    /\ manifest.t = "Object"
    /\ Len(manifest.m) = 2
    /\ ~Malformed(manifest.m[1][2])
    /\ manifest.m[2][2].t = "Object"
    /\ Malformed(manifest.m[2][2])

RECURSIVE BuiltFrom(_, _, _)
\* node is what the claim says the manifest value v under key builds
BuiltFrom(node, key, v) ==
    /\ node.name = key
    /\ v.t = "Object" =>
          /\ node.kind = "Dir"
          /\ Len(node.entries) = Len(v.m)
          /\ \A i \in 1..Len(v.m) : BuiltFrom(node.entries[i], v.m[i][1], v.m[i][2])
    /\ v.t = "String" =>
          /\ node.kind = "File"
          /\ \E i \in 1..Len(v.s) :
                /\ v.s[i] = ":"
                /\ \A j \in 1..(i - 1) : v.s[j] # ":"
                /\ SubSeq(v.s, 1, i - 1) = <<"r", "a", "w">> => node.file_type.type = "Raw"
                /\ SubSeq(v.s, 1, i - 1) = <<"f", "i", "l", "e">> =>
                      node.file_type.type = "Local"
                /\ Len(node.file_type.pointer) = Len(v.s) - i
                /\ \A k \in 1..(Len(v.s) - i) : node.file_type.pointer[k] = v.s[i + k]

\* C11: a descriptor is split at its first ':' only: "raw:<rest>" builds a
\* file with an embedded backend whose data is <rest>, "file:<rest>" a file
\* with a delegate backend whose path is <rest>, <rest> being everything
\* after the first ':'; every node is named by its manifest key and the root
\* by the empty string.
C11_DescriptorSplitAtFirstSeparator ==
    phase = "mounted" => BuiltFrom(fs_tree_root, "", manifest)

\* a tree with a file built from "raw:a:b" and a file built from "file:"
C11_Witness ==
    /\ phase = "mounted"
    /\ manifest.t = "Object"
    /\ Len(manifest.m) = 2
    /\ manifest.m[1][2] = JString(DescRaw)
    /\ manifest.m[2][2] = JString(DescLocalEmpty)
    /\ fs_tree_root.entries[1].file_type = FSFileType("Raw", <<"a", ":", "b">>)
    /\ fs_tree_root.entries[2].file_type = FSFileType("Local", <<>>)
    /\ fs_tree_root.entries[2].name = manifest.m[2][1]

\* the last request is the getattr that follows a successful lookup
IsGetattrAfterLookup == req.op = "getattr" /\ prev.kind = "entry"

C13_ParentIsContainingDirectory ==
    Mounted =>
        /\ fs_tree_root.parent = 0
        /\ inode[1].parent = 0
        /\ \A k \in (DOMAIN inode) \ {1} :
              LET up == inode[k].parent IN
              /\ up \in DOMAIN inode
              /\ inode[up].kind = "Dir"
              /\ \E j \in 1..Len(inode[up].entries) : inode[up].entries[j] = inode[k]
              /\ ParentsOf(k) = {up}

\* a chain of three directories below the root: parents at every depth
C13_Witness ==
    /\ phase = "mounted"
    /\ Len(inode) = 4
    /\ inode[2].parent = 1
    /\ inode[3].parent = 2
    /\ inode[4].parent = 3

RECURSIVE Descend(_, _)
\* the node reached from node through the children named names[1], names[2],
\* ..., or none when a name is no child's name or node is a file
Descend(node, names) ==
    IF names = <<>> THEN Some(node)
    ELSE LET named == {i \in 1..Len(node.entries) : node.entries[i].name = Head(names)} IN
         IF node.kind # "Dir" \/ named = {} THEN None
         ELSE Descend(node.entries[CHOOSE i \in named : \A j \in named : i <= j],
                      Tail(names))

\* C14 as stated: walk("/n1/../nk") is the node reached by descending through
\* the children named n1, .., nk, or none when a component names no child or
\* is applied to a file; walk("/") is the root.
C14_WalkDescendsByName ==
    req.op = "walk" => reply = Walked(Descend(fs_tree_root, req.path))

\* a path component that takes part in the descent
IsWalked(seg) == seg # "."

\* C14: walk("/n1/../nk") is the node reached by descending through the
\* children named by the components other than ".", which are dropped; it is
\* none when such a component names no child or is applied to a file, and
\* whenever a component is ".."; walk("/") is the root.
C14_WalkDescendsByNormalComponents ==
    req.op = "walk" =>
        /\ reply = Walked(Descend(fs_tree_root, SelectSeq(req.path, IsWalked)))
        /\ (\E i \in 1..Len(req.path) : req.path[i] = "..") => reply.kind = "walk_none"
        /\ req.path = <<>> => reply = Walked(Some(fs_tree_root))

\* walk found a node two levels below the root
C14_Witness ==
    /\ req.op = "walk"
    /\ Len(req.path) = 2
    /\ reply.kind = "walk_some"
    /\ reply.node.parent = 2
    /\ reply.node.name = req.path[2]

\* C15: whatever a request ends in, the adapter goes on serving and its
\* tree, index and listings stay as they were at the mount, so that every
\* later request is answered as on a fresh mount.
C15_RequestsLeaveAdapterServing ==
    [][phase = "mounted" =>
          /\ phase' = "mounted"
          /\ fs_tree_root' = fs_tree_root
          /\ inode' = inode
          /\ dir_listing' = dir_listing]_vars

\* C16: a client that pages a directory with the cursor of the last entry
\* delivered gets the empty page after at most as many non-empty pages as the
\* listing has entries.
C16_PagingEndsWithinListingLength ==
    pager.state # "idle" =>
        (IF pager.state = "done" THEN pager.calls - 1 ELSE pager.calls)
            <= Len(dir_listing[pager.dir])

\* the names of the children in the listing of directory d, in order
ListedNames(d) ==
    LET IsChild(e) == e[3] # "." /\ e[3] # ".." IN
    SelectSeq(dir_listing[d], IsChild)

\* C17: a lookup in directory d of a name that stands in d's listing, other
\* than "." and "..", succeeds with the identity and kind of that listing
\* entry, and the name stands there once; a lookup of any other name, "."
\* and ".." included, replies ENOENT.
C17_LookupAgreesWithListing ==
    (req.op = "lookup" /\ req.ino \in DOMAIN dir_listing) =>
        LET listed == ListedNames(req.ino)
            at == {i \in 1..Len(listed) : listed[i][3] = req.name}
        IN  /\ Cardinality(at) <= 1
            /\ \A i \in at :
                  /\ reply.kind = "entry"
                  /\ reply.attr.ino = listed[i][1]
                  /\ reply.attr.kind = listed[i][2]
            /\ at = {} => reply = ReplyError("ENOENT")
            /\ reply.kind = "entry" => at # {}
            /\ req.name \in {".", ".."} => reply = ReplyError("ENOENT")

====
